---- MODULE Spec2Model ----
(***************************************************************************)
(* Model of baikal.core.model.Model: construction (graph building and      *)
(* required-step resolution) and the two execution passes (fit, predict).  *)
(*                                                                         *)
(* Steps and data handles are small integers.  A step graph is a record    *)
(*   n    : number of steps (steps are 1..n)                               *)
(*   ins  : step -> sequence of input handles   (step.inputs)              *)
(*   outs : step -> sequence of output handles  (step.outputs)             *)
(*   cap  : step -> "predict" | "transform" | "none"  (hasattr checks)     *)
(* The producing step of a handle h (h.step) is the step whose outs holds  *)
(* h.                                                                      *)
(***************************************************************************)
EXTENDS Integers, Sequences, FiniteSets, TLC

VARIABLES
    g,            \* the user's steps (read only after Init)
    pc,           \* "new" | "ready" | "broken" | "fit" | "predict"
    inputs,       \* self.inputs
    outputs,      \* self.outputs
    graph,        \* self._graph : [nodes, edges]
    sorted,       \* all_steps_sorted, the order topological_sort returned
    steps,        \* self._steps
    required,     \* all_required_steps at the end of _get_required_steps
    warned,       \* handles named by warnings.warn, in order
    missing,      \* handles named by the missing-input ValueError
    err,          \* error raised by the last operation, "" if none
    stage,        \* where the last construction stopped
    cache,        \* the execution cache of the running call
    idx,          \* position of the running call in self._steps
    calls,        \* invocations of step capabilities made by the last call
    input_data,   \* argument of the last call
    target_data,  \* argument of the last fit: [given, vals]
    result,       \* return value of the last predict: [some, bare, vals]
    learned,      \* learned state of every step
    op            \* the last operation: "" | "init" | "fit" | "predict"

vars == <<g, pc, inputs, outputs, graph, sorted, steps, required, warned,
          missing, err, stage, cache, idx, calls, input_data, target_data,
          result, learned, op>>

(***************************************************************************)
(* Bounds                                                                  *)
(***************************************************************************)
MaxInputs == 2        \* longest declared inputs sequence
MaxOutputs == 2       \* longest declared outputs sequence
RecursionLimit == 6   \* depth at which the interpreter gives up recursing

(***************************************************************************)
(* Step graphs the Model is built on                                       *)
(***************************************************************************)
\* x -> A -> B
Chain ==
    [n |-> 3,
     ins  |-> << <<>>, <<1>>, <<2>> >>,
     outs |-> << <<1>>, <<2>>, <<3>> >>,
     cap  |-> << "none", "transform", "predict" >>]

\* A has no inputs; a -> B; a -> C; (b, c) -> D
Diamond ==
    [n |-> 4,
     ins  |-> << <<>>, <<1>>, <<1>>, <<2, 3>> >>,
     outs |-> << <<1>>, <<2>>, <<3>>, <<4>> >>,
     cap  |-> << "predict", "transform", "predict", "predict" >>]

\* X -> A(a1, a2): a step with an input and two outputs; (a1, a2) -> B
Split ==
    [n |-> 3,
     ins  |-> << <<>>, <<1>>, <<2, 3>> >>,
     outs |-> << <<1>>, <<2, 3>>, <<4>> >>,
     cap  |-> << "none", "predict", "predict" >>]

\* X(x1, x2) has no inputs and two outputs; x1 -> A; (x2, a) -> B; A has
\* neither predict nor transform
MultiSource ==
    [n |-> 3,
     ins  |-> << <<>>, <<1>>, <<2, 3>> >>,
     outs |-> << <<1, 2>>, <<3>>, <<4>> >>,
     cap  |-> << "none", "none", "predict" >>]

\* two sources X, Y; x -> A; (y, a) -> B; B has neither predict nor transform
TwoSources ==
    [n |-> 4,
     ins  |-> << <<>>, <<>>, <<1>>, <<2, 3>> >>,
     outs |-> << <<1>>, <<2>>, <<3>>, <<4>> >>,
     cap  |-> << "none", "none", "predict", "none" >>]

\* X -> A; A and B feed each other: (x, b) -> A -> B -> A
Cycle ==
    [n |-> 3,
     ins  |-> << <<>>, <<1, 3>>, <<2>> >>,
     outs |-> << <<1>>, <<2>>, <<3>> >>,
     cap  |-> << "none", "predict", "predict" >>]

\* a step that consumes its own output, followed by B
SelfLoop ==
    [n |-> 2,
     ins  |-> << <<1>>, <<1>> >>,
     outs |-> << <<1>>, <<2>> >>,
     cap  |-> << "predict", "predict" >>]

Graphs == {Chain, Diamond, Split, MultiSource, TwoSources, Cycle, SelfLoop}

(***************************************************************************)
(* Helpers on sequences                                                    *)
(***************************************************************************)
Range(s) == {s[i] : i \in 1..Len(s)}

\* the sequences of at most k distinct elements of S
SeqsUpTo(S, k) ==
    UNION {{q \in [1..m -> S] : \A i, j \in 1..m : q[i] = q[j] => i = j} :
              m \in 0..k}

StepsOf(G) == 1..G.n

HandlesOf(G) == UNION {Range(G.outs[s]) : s \in StepsOf(G)}

\* h.step
StepOf(G, h) == CHOOSE s \in StepsOf(G) : h \in Range(G.outs[s])

(***************************************************************************)
(* DiGraph (baikal.core.digraph)                                           *)
(***************************************************************************)
EmptyGraph == [nodes |-> {}, edges |-> {}]

in_degree(gr, s) == Cardinality({e \in gr.edges : e[2] = s})

\* every order of the nodes in which each edge goes forward
TopologicalSorts(gr) ==
    LET k == Cardinality(gr.nodes)
    IN  {o \in [1..k -> gr.nodes] :
            /\ \A i, j \in 1..k : o[i] = o[j] => i = j
            /\ \A e \in gr.edges :
                  \E i, j \in 1..k : i < j /\ o[i] = e[1] /\ o[j] = e[2]}

(***************************************************************************)
(* Model._build_graph                                                      *)
(***************************************************************************)
\* the step 0 stands for a walk that went beyond the recursion limit
Overflow == 0

RECURSIVE collect_steps_from(_, _, _)
collect_steps_from(G, output, depth) ==
    IF depth > RecursionLimit
    THEN {Overflow}
    ELSE LET parent_step == StepOf(G, output)
         IN  {parent_step} \cup
             UNION {collect_steps_from(G, G.ins[parent_step][k], depth + 1) :
                        k \in 1..Len(G.ins[parent_step])}

\* the number of calls of graph.add_node made by the walks from the handles
\* hs[k], hs[k+1], ...: one per call of collect_steps_from
RECURSIVE add_node_calls(_, _, _, _)
add_node_calls(G, hs, k, depth) ==
    IF k > Len(hs) \/ depth > RecursionLimit
    THEN 0
    ELSE 1 + add_node_calls(G, G.ins[StepOf(G, hs[k])], 1, depth + 1)
           + add_node_calls(G, hs, k + 1, depth)

\* the nodes added by the walk from every declared output
collected(G, outs) ==
    UNION {collect_steps_from(G, outs[k], 1) : k \in 1..Len(outs)}

build_graph(G, outs) ==
    LET nodes == collected(G, outs)
    IN  [nodes |-> nodes,
         edges |-> UNION {{<<StepOf(G, G.ins[s][k]), s>> :
                              k \in 1..Len(G.ins[s])} : s \in nodes}]

(***************************************************************************)
(* Model._get_required_steps                                               *)
(***************************************************************************)
\* backtrack(output) with the closure's all_required_steps passed as allreq;
\* the result holds the returned required_steps and the handles the call
\* appended to inputs_found
RECURSIVE backtrack(_, _, _, _)
RECURSIVE backtrack_inputs(_, _, _, _, _)
backtrack(G, ins, allreq, output) ==
    IF output \in Range(ins)
    THEN [req |-> {}, found |-> <<output>>]
    ELSE LET parent_step == StepOf(G, output)
         IN  IF parent_step \in allreq
             THEN [req |-> {}, found |-> <<>>]
             ELSE LET r == backtrack_inputs(G, ins, allreq, G.ins[parent_step], 1)
                  IN  [req |-> {parent_step} \cup r.req, found |-> r.found]

\* the loop with "required_steps = backtrack(input)" for "|=": only the last
\* input's steps are kept
RECURSIVE backtrack_inputs_last(_, _, _, _, _)
backtrack_inputs_last(G, ins, allreq, hs, k) ==
    IF k > Len(hs)
    THEN [req |-> {}, found |-> <<>>]
    ELSE LET a == backtrack(G, ins, allreq, hs[k])
             b == backtrack_inputs_last(G, ins, allreq, hs, k + 1)
         IN  [req |-> IF k = Len(hs) THEN a.req ELSE b.req,
              found |-> a.found \o b.found]

\* the loop "for input in parent_step.inputs" from position k on
backtrack_inputs(G, ins, allreq, hs, k) ==
    IF k > Len(hs)
    THEN [req |-> {}, found |-> <<>>]
    ELSE LET a == backtrack(G, ins, allreq, hs[k])
             b == backtrack_inputs(G, ins, allreq, hs, k + 1)
         IN  [req |-> a.req \cup b.req, found |-> a.found \o b.found]

\* the loop with "all_required_steps = backtrack(output)" for "|="
RECURSIVE backtrack_outputs_assign(_, _, _, _, _)
backtrack_outputs_assign(G, ins, outs, k, acc) ==
    IF k > Len(outs)
    THEN acc
    ELSE LET a == backtrack(G, ins, acc.req, outs[k])
         IN  backtrack_outputs_assign(G, ins, outs, k + 1,
                 [req |-> a.req, found |-> acc.found \o a.found])

\* the loop "for output in self.outputs" from position k on
RECURSIVE backtrack_outputs(_, _, _, _, _)
backtrack_outputs(G, ins, outs, k, acc) ==
    IF k > Len(outs)
    THEN acc
    ELSE LET a == backtrack(G, ins, acc.req, outs[k])
         IN  backtrack_outputs(G, ins, outs, k + 1,
                 [req |-> acc.req \cup a.req, found |-> acc.found \o a.found])

\* the unused-input check with the test inverted
unused_inputs_inverted(ins, inputs_found) ==
    SelectSeq(ins, LAMBDA h : h \in Range(inputs_found))

\* the unused-input check: the handles warnings.warn is called for
unused_inputs(ins, inputs_found) ==
    SelectSeq(ins, LAMBDA h : h \notin Range(inputs_found))

\* the missing-input check collecting only the first output handle of a step
missing_inputs_first(G, gr, all_required_steps) ==
    {G.outs[s][1] : s \in {t \in all_required_steps : in_degree(gr, t) = 0}}

\* the missing-input check: the handles collected in missing_inputs
missing_inputs(G, gr, all_required_steps) ==
    UNION {Range(G.outs[s]) :
              s \in {t \in all_required_steps : in_degree(gr, t) = 0}}

\* the returned list built from the order walked backwards
RECURSIVE reverse(_)
reverse(sq) == IF sq = <<>> THEN <<>> ELSE Append(reverse(Tail(sq)), Head(sq))

restrict_sorted_reversed(all_steps_sorted, all_required_steps) ==
    SelectSeq(reverse(all_steps_sorted), LAMBDA s : s \in all_required_steps)

\* the returned list
restrict_sorted(all_steps_sorted, all_required_steps) ==
    SelectSeq(all_steps_sorted, LAMBDA s : s \in all_required_steps)

get_required_steps(G, gr, ins, outs, all_steps_sorted) ==
    LET bt   == backtrack_outputs(G, ins, outs, 1, [req |-> {}, found |-> <<>>])
        miss == missing_inputs(G, gr, bt.req)
    IN  [required |-> bt.req,
         found    |-> bt.found,
         warned   |-> unused_inputs(ins, bt.found),
         missing  |-> miss,
         ok       |-> miss = {},
         steps    |-> IF miss = {} THEN restrict_sorted(all_steps_sorted, bt.req)
                      ELSE <<>>]

(***************************************************************************)
(* Values                                                                  *)
(*                                                                         *)
(* A value is a term that records where it comes from: the caller (the     *)
(* i-th element of input_data or of target_data) or a step (the k-th       *)
(* output of predict/transform of step s applied to args, the step being   *)
(* in learned state st).                                                   *)
(***************************************************************************)
Unfitted == [fitted |-> FALSE, X |-> <<>>, y |-> <<>>]

Fitted(Xs, ys) == [fitted |-> TRUE, X |-> Xs, y |-> ys]

\* the caller is no step
Caller == 0

InputValue(i) ==
    [via |-> "input", step |-> Caller, idx |-> i, args |-> <<>>,
     st |-> Unfitted]

TargetValue(i) ==
    [via |-> "target", step |-> Caller, idx |-> i, args |-> <<>>,
     st |-> Unfitted]

\* what step s in state st returns from predict or transform (via) for Xs:
\* one value per output handle
StepOutput(G, via, s, Xs, st) ==
    [k \in 1..Len(G.outs[s]) |->
        [via |-> via, step |-> s, idx |-> k, args |-> Xs, st |-> st]]

NoResult == [some |-> FALSE, bare |-> FALSE, vals |-> <<>>]

NoTargets == [given |-> FALSE, vals |-> <<>>]

(***************************************************************************)
(* The execution cache: a function from the handles it holds to values     *)
(***************************************************************************)
\* a cache kept on the Model between calls in place of "cache = dict()"
StaleCache == cache

\* the dict a call starts with
EmptyCache == <<>>

Min(a, b) == IF a < b THEN a ELSE b

\* an update that keeps the value of a handle the cache already holds
cache_update_keep(c, keys, vals) ==
    LET m == Min(Len(keys), Len(vals))
        last(h) == CHOOSE i \in 1..m :
                      keys[i] = h /\ \A j \in 1..m : keys[j] = h => j <= i
    IN  [h \in DOMAIN c \cup {keys[i] : i \in 1..m} |->
            IF h \in DOMAIN c THEN c[h] ELSE vals[last(h)]]

\* cache.update(zip(keys, vals)): later pairs win
cache_update(c, keys, vals) ==
    LET m == Min(Len(keys), Len(vals))
        last(h) == CHOOSE i \in 1..m :
                      keys[i] = h /\ \A j \in 1..m : keys[j] = h => j <= i
    IN  [h \in DOMAIN c \cup {keys[i] : i \in 1..m} |->
            IF \E i \in 1..m : keys[i] = h THEN vals[last(h)] ELSE c[h]]

\* [cache[i] for i in handles]
lookup(c, handles) == [k \in 1..Len(handles) |-> c[handles[k]]]

\* [cache[o] for o in handles if o in cache]
lookup_present(c, handles) ==
    lookup(c, SelectSeq(handles, LAMBDA h : h \in DOMAIN c))

(***************************************************************************)
(* Initial state: the steps exist, no Model has been constructed           *)
(***************************************************************************)
Init ==
    /\ g \in Graphs
    /\ pc = "new"
    /\ inputs = <<>>
    /\ outputs = <<>>
    /\ graph = EmptyGraph
    /\ sorted = <<>>
    /\ steps = <<>>
    /\ required = {}
    /\ warned = <<>>
    /\ missing = {}
    /\ err = ""
    /\ stage = ""
    /\ cache = <<>>
    /\ idx = 0
    /\ calls = <<>>
    /\ input_data = <<>>
    /\ target_data = NoTargets
    /\ result = NoResult
    /\ learned = [s \in StepsOf(g) |-> Unfitted]
    /\ op = ""

(***************************************************************************)
(* Model.__init__                                                          *)
(***************************************************************************)
\* an object that is not a data handle
NotData == 0

is_data_list(G, l) == \A k \in 1..Len(l) : l[k] \in HandlesOf(G)

\* the Model's fields and the diagnostics when __init__ ends
InitEnds(p, ins, outs, gr, srt, r, e, stg) ==
    /\ pc' = p
    /\ inputs' = ins
    /\ outputs' = outs
    /\ graph' = gr
    /\ sorted' = srt
    /\ steps' = r.steps
    /\ required' = r.required
    /\ warned' = r.warned
    /\ missing' = r.missing
    /\ err' = e
    /\ stage' = stg
    /\ op' = "init"
    /\ UNCHANGED <<g, cache, idx, calls, input_data, target_data, result,
                   learned>>

Unresolved == [required |-> {}, found |-> <<>>, warned |-> <<>>,
               missing |-> {}, ok |-> FALSE, steps |-> <<>>]

Construct ==
    /\ pc = "new"
    /\ \E ins \in SeqsUpTo(HandlesOf(g) \cup {NotData}, MaxInputs),
          outs \in SeqsUpTo(HandlesOf(g) \cup {NotData}, MaxOutputs) :
          IF ~is_data_list(g, ins) \/ ~is_data_list(g, outs)
          THEN InitEnds("broken", <<>>, <<>>, EmptyGraph, <<>>, Unresolved,
                        "ValueError", "validate")
          ELSE IF Overflow \in collected(g, outs)
          THEN InitEnds("broken", ins, outs, EmptyGraph, <<>>, Unresolved,
                        "RecursionError", "build_graph")
          ELSE LET gr == build_graph(g, outs)
               IN  IF TopologicalSorts(gr) = {}
                   THEN InitEnds("broken", ins, outs, gr, <<>>, Unresolved,
                                 "CycleError", "topological_sort")
                   ELSE \E srt \in TopologicalSorts(gr) :
                           LET r == get_required_steps(g, gr, ins, outs, srt)
                           IN  IF r.ok
                               THEN InitEnds("ready", ins, outs, gr, srt, r,
                                             "", "done")
                               ELSE InitEnds("broken", ins, outs, gr, srt, r,
                                             "ValueError", "missing_inputs")

(***************************************************************************)
(* Model.fit                                                               *)
(***************************************************************************)
\* a call that raises before its loop: its locals are gone and the Model
\* stays usable for the next call
Raise(e) ==
    /\ pc' = "ready"
    /\ err' = e
    /\ cache' = EmptyCache
    /\ idx' = 0
    /\ calls' = <<>>
    /\ input_data' = <<>>
    /\ target_data' = NoTargets
    /\ result' = NoResult

\* a call that enters its loop over self._steps
Enter(p, data, tdata, c) ==
    /\ pc' = p
    /\ err' = ""
    /\ cache' = c
    /\ idx' = 1
    /\ calls' = <<>>
    /\ input_data' = data
    /\ target_data' = tdata
    /\ result' = NoResult

\* a call that raises inside its loop
Abort(e) ==
    /\ pc' = "ready"
    /\ err' = e

\* the test "len(input_data) != len(self.inputs)" with "<" for "!="
count_mismatch_short(data, handles) == Len(data) < Len(handles)

\* the tests "len(input_data) != len(self.inputs)" and
\* "len(target_data) != len(self.outputs)"
count_mismatch(data, handles) == Len(data) # Len(handles)

\* the loops running over every sorted step of the graph
steps_to_run_all == sorted

\* "for step in self._steps": the list the loops of fit and predict run over
steps_to_run == steps

\* the tests hasattr(step, 'predict') and hasattr(step, 'transform') with
\* the else branch that raises TypeError never taken
can_compute_always(G, s) == TRUE

\* step s exposes predict or transform: the loop can ask it for its outputs
can_compute(G, s) == G.cap[s] \in {"predict", "transform"}

\* a record of one invocation of a step capability
Invocation(method, s, Xs, ys) == [op |-> method, step |-> s, X |-> Xs, y |-> ys]

\* fit up to the start of the loop over self._steps.  The caller passes nin
\* values as input_data and, when tgiven, ntg values as target_data
FitBegin ==
    /\ pc = "ready"
    /\ \E nin \in 0..(MaxInputs + 1) :
          LET data   == [i \in 1..nin |-> InputValue(i)]
              cache1 == cache_update(EmptyCache, inputs, data)
          IN  IF count_mismatch(data, inputs)
              THEN Raise("ValueError: inputs")
              ELSE \E tgiven \in BOOLEAN, ntg \in 0..(MaxOutputs + 1) :
                      LET tdata == IF tgiven
                                   THEN [given |-> TRUE,
                                         vals |-> [i \in 1..ntg |->
                                                      TargetValue(i)]]
                                   ELSE NoTargets
                      IN  /\ tgiven \/ ntg = 0
                          /\ IF tdata.given /\ count_mismatch(tdata.vals, outputs)
                             THEN Raise("ValueError: targets")
                             ELSE Enter("fit", data, tdata,
                                        IF tdata.given
                                        THEN cache_update(cache1, outputs,
                                                          tdata.vals)
                                        ELSE cache1)
    /\ op' = "fit"
    /\ UNCHANGED <<g, inputs, outputs, graph, sorted, steps, required,
                   warned, missing, stage, learned>>

\* one iteration of the loop of fit
FitStep ==
    /\ pc = "fit"
    /\ idx <= Len(steps_to_run)
    /\ LET step == steps_to_run[idx]
       IN  IF \E k \in 1..Len(g.ins[step]) : g.ins[step][k] \notin DOMAIN cache
           THEN /\ Abort("KeyError")
                /\ UNCHANGED <<cache, calls, learned, idx>>
           ELSE LET Xs  == lookup(cache, g.ins[step])
                    ys  == lookup_present(cache, g.outs[step])
                    st  == Fitted(Xs, ys)
                    fit == Invocation("fit", step, Xs, ys)
                IN  /\ learned' = [learned EXCEPT ![step] = st]
                    /\ IF ~can_compute(g, step)
                       THEN /\ Abort("TypeError")
                            /\ calls' = Append(calls, fit)
                            /\ UNCHANGED <<cache, idx>>
                       ELSE LET output_data ==
                                    StepOutput(g, g.cap[step], step, Xs, st)
                            IN  /\ calls' = calls \o
                                       <<fit, Invocation(g.cap[step], step, Xs, <<>>)>>
                                /\ cache' = cache_update(cache, g.outs[step],
                                                         output_data)
                                /\ idx' = idx + 1
                                /\ UNCHANGED <<pc, err>>
    /\ UNCHANGED <<g, inputs, outputs, graph, sorted, steps, required,
                   warned, missing, stage, input_data, target_data, result,
                   op>>

\* the loop is over: fit returns None
FitReturn ==
    /\ pc = "fit"
    /\ idx > Len(steps_to_run)
    /\ pc' = "ready"
    /\ UNCHANGED <<g, inputs, outputs, graph, sorted, steps, required,
                   warned, missing, err, stage, cache, idx, calls, input_data,
                   target_data, result, learned, op>>

(***************************************************************************)
(* Model.predict                                                           *)
(***************************************************************************)
PredictBegin ==
    /\ pc = "ready"
    /\ \E nin \in 0..(MaxInputs + 1) :
          LET data == [i \in 1..nin |-> InputValue(i)]
          IN  IF count_mismatch(data, inputs)
              THEN Raise("ValueError: inputs")
              ELSE Enter("predict", data, NoTargets,
                         cache_update(EmptyCache, inputs, data))
    /\ op' = "predict"
    /\ UNCHANGED <<g, inputs, outputs, graph, sorted, steps, required,
                   warned, missing, stage, learned>>

\* one iteration of the loop of predict
PredictStep ==
    /\ pc = "predict"
    /\ idx <= Len(steps_to_run)
    /\ LET step == steps_to_run[idx]
       IN  IF \E k \in 1..Len(g.ins[step]) : g.ins[step][k] \notin DOMAIN cache
           THEN /\ Abort("KeyError")
                /\ UNCHANGED <<cache, calls, idx>>
           ELSE LET Xs == lookup(cache, g.ins[step])
                IN  IF ~can_compute(g, step)
                    THEN /\ Abort("TypeError")
                         /\ UNCHANGED <<cache, calls, idx>>
                    ELSE LET output_data ==
                                 StepOutput(g, g.cap[step], step, Xs, learned[step])
                         IN  /\ calls' = Append(calls,
                                     Invocation(g.cap[step], step, Xs, <<>>))
                             /\ cache' = cache_update(cache, g.outs[step],
                                                      output_data)
                             /\ idx' = idx + 1
                             /\ UNCHANGED <<pc, err>>
    /\ UNCHANGED <<g, inputs, outputs, graph, sorted, steps, required,
                   warned, missing, stage, input_data, target_data, result,
                   learned, op>>

\* the lines after the loop: collect the outputs and return them
PredictReturn ==
    /\ pc = "predict"
    /\ idx > Len(steps_to_run)
    /\ IF \E k \in 1..Len(outputs) : outputs[k] \notin DOMAIN cache
       THEN Abort("KeyError: output") /\ UNCHANGED result
       ELSE LET output_data == lookup(cache, outputs)
            IN  /\ pc' = "ready"
                /\ err' = ""
                /\ result' = [some |-> TRUE,
                              bare |-> Len(output_data) = 1,
                              vals |-> output_data]
    /\ UNCHANGED <<g, inputs, outputs, graph, sorted, steps, required,
                   warned, missing, stage, cache, idx, calls, input_data,
                   target_data, learned, op>>

Next ==
    \/ Construct
    \/ FitBegin
    \/ FitStep
    \/ FitReturn
    \/ PredictBegin
    \/ PredictStep
    \/ PredictReturn

Spec == Init /\ [][Next]_vars

TypeOK ==
    /\ pc \in {"new", "ready", "broken", "fit", "predict"}
    /\ err \in {"", "ValueError", "ValueError: inputs", "ValueError: targets",
                 "RecursionError", "CycleError", "KeyError", "KeyError: output",
                 "TypeError"}
    /\ idx \in 0..(Len(steps) + 1)

(***************************************************************************)
(* Reference notions the properties are stated with                        *)
(***************************************************************************)
\* __init__ got as far as the checks of _get_required_steps
Resolved == stage \in {"done", "missing_inputs"}

\* __init__ returned a Model
Constructed == stage = "done"

\* step p produces one of the input handles of step s
Feeds(G, p, s) == \E h \in Range(G.ins[s]) : StepOf(G, h) = p

\* one more round of walking backward from the steps S, not through the
\* handles in cut
RECURSIVE WalkBack(_, _, _, _)
WalkBack(G, cut, S, rounds) ==
    IF rounds = 0
    THEN S
    ELSE WalkBack(G, cut,
             S \cup {StepOf(G, h) :
                        h \in UNION {Range(G.ins[s]) : s \in S} \ cut},
             rounds - 1)

\* the steps reachable backward from the handles outs without descending
\* through a handle in cut
BackwardClosure(G, cut, outs) ==
    WalkBack(G, cut, {StepOf(G, h) : h \in Range(outs) \ cut}, G.n)

\* some step reachable backward from outs lies on a cycle
CycleReachable(G, outs) ==
    \E s \in BackwardClosure(G, {}, outs) :
        \E h \in Range(G.ins[s]) : s \in BackwardClosure(G, {}, <<h>>)

\* sq without the occurrences of h
Without(sq, h) == SelectSeq(sq, LAMBDA e : e # h)

(***************************************************************************)
(* Properties                                                              *)
(***************************************************************************)
\* C1: on a successfully constructed Model the resolved list is a
\* topological order of the required steps: a step of the list that produces
\* an input handle of another step of the list stands strictly before it.
RequiredStepsTopologicallyOrdered ==
    Constructed =>
        \A i, j \in 1..Len(steps) : Feeds(g, steps[i], steps[j]) => i < j

\* the diamond resolved to B, C, D out of the four sorted steps
WitnessTopologicalOrder ==
    /\ Constructed
    /\ Len(steps) = 3
    /\ Len(sorted) = 4
    /\ \E i, j \in 1..Len(steps) : Feeds(g, steps[i], steps[j])

\* C2: the resolved steps are exactly the steps reachable backward from the
\* declared outputs without descending through a declared input, each once.
RequiredStepsAreBackwardClosure ==
    /\ Resolved => required = BackwardClosure(g, Range(inputs), outputs)
    /\ Constructed =>
          /\ Range(steps) = BackwardClosure(g, Range(inputs), outputs)
          /\ Len(steps) = Cardinality(Range(steps))

\* two declared outputs sharing steps, with the walk cut at declared inputs
\* so that steps of the graph are left out
WitnessBackwardClosure ==
    /\ Constructed
    /\ Len(outputs) = 2
    /\ outputs[1] # outputs[2]
    /\ Cardinality(required) >= 3
    /\ graph.nodes \ required # {}
    /\ \E s \in required : Feeds(g, s, steps[Len(steps)]) /\ s # steps[1]

\* the output handles of the required steps without incoming edges
SourceHandles ==
    UNION {Range(g.outs[s]) : s \in {t \in required : g.ins[t] = <<>>}}

\* a handle some required step takes as input, or a declared output
Needed(h) ==
    \/ \E s \in required : h \in Range(g.ins[s])
    \/ h \in Range(outputs)

\* C3: construction fails with the missing-input error exactly when a
\* declared output depends, on a path not cut by a declared input, on a
\* handle of a step without incoming edges, and the error names exactly the
\* needed handles that are not declared inputs.
MissingInputErrorNamesNeededHandles ==
    Resolved =>
        /\ stage = "missing_inputs" <=>
              \E s \in BackwardClosure(g, Range(inputs), outputs) :
                  g.ins[s] = <<>>
        /\ stage = "missing_inputs" =>
              missing = {h \in SourceHandles :
                            h \notin Range(inputs) /\ Needed(h)}

\* C4: a warning is issued for a declared input exactly when it is neither
\* a declared output nor an input handle of a required step, and resolving
\* without that input gives the same step list and the same outcome.
UnusedInputWarningIsInert ==
    Resolved =>
        /\ Range(warned) =
              {h \in Range(inputs) :
                  /\ h \notin Range(outputs)
                  /\ \A s \in required : h \notin Range(g.ins[s])}
        /\ \A h \in Range(warned) :
              LET r == get_required_steps(g, graph, Without(inputs, h),
                                          outputs, sorted)
              IN  /\ r.steps = steps
                  /\ r.ok = Constructed
                  /\ r.missing = missing

\* a declared input upstream of another declared input that cuts the path
WitnessUnusedInput ==
    /\ Constructed
    /\ warned # <<>>
    /\ steps # <<>>
    /\ \E h \in Range(warned) :
          \E s \in graph.nodes \ required :
              /\ h \in Range(g.ins[s])
              /\ Range(g.outs[s]) \cap Range(inputs) # {}

\* C5: when the steps reachable backward from the declared outputs contain
\* a cycle, _build_graph completes and construction fails in
\* topological_sort.
CycleFailsAtTopologicalSort ==
    (op = "init" /\ CycleReachable(g, outputs)) =>
        /\ stage = "topological_sort"
        /\ err = "CycleError"

\* the last call returned normally
Returned(o) == op = o /\ pc = "ready" /\ err = ""

\* the invocations of method m on step s in the last call
InvocationsOf(s, m) == {k \in 1..Len(calls) : calls[k].step = s /\ calls[k].op \in m}

Inference == {"predict", "transform"}

\* C6: in a successful fit or predict every required step is executed
\* exactly once, in the resolved order, and no other step is invoked; in fit
\* each step is fit and then asked for its outputs before the next step.
RequiredStepsRunOnceInOrder ==
    /\ pc = "predict" \/ Returned("predict") =>
          LET n == IF pc = "predict" THEN idx - 1 ELSE Len(steps)
          IN  /\ n <= Len(steps)
              /\ Len(calls) = n
              /\ \A k \in 1..n : /\ calls[k].step = steps[k]
                                  /\ calls[k].op \in Inference
    /\ pc = "fit" \/ Returned("fit") =>
          LET n == IF pc = "fit" THEN idx - 1 ELSE Len(steps)
          IN  /\ n <= Len(steps)
              /\ Len(calls) = 2 * n
              /\ \A k \in 1..n : /\ calls[2 * k - 1].step = steps[k]
                                  /\ calls[2 * k - 1].op = "fit"
                                  /\ calls[2 * k].step = steps[k]
                                  /\ calls[2 * k].op \in Inference
    /\ Returned("predict") \/ Returned("fit") =>
          /\ {calls[k].step : k \in 1..Len(calls)} = required
          /\ \A s \in required :
                /\ Cardinality(InvocationsOf(s, Inference)) = 1
                /\ Cardinality(InvocationsOf(s, {"fit"})) =
                      IF op = "fit" THEN 1 ELSE 0

\* a fit of the whole diamond: B, C and D fit and run once each
WitnessDiamondRunsOnce ==
    /\ Returned("fit")
    /\ g = Diamond
    /\ required = {2, 3, 4}
    /\ Len(calls) = 6

\* v is a value the caller supplied for handle h in the running call
CallerValue(h, v) ==
    \E j \in 1..Len(inputs) : inputs[j] = h /\ v = input_data[j]

\* v is what the producing step of h returned for h in the running call,
\* computed from the values the cache holds for its input handles
ProducedValue(h, v) ==
    LET s == StepOf(g, h)
    IN  \E k \in InvocationsOf(s, Inference) :
            /\ calls[k].X = [m \in 1..Len(g.ins[s]) |-> cache[g.ins[s][m]]]
            /\ \E i \in 1..Len(g.outs[s]) :
                  /\ g.outs[s][i] = h
                  /\ v = StepOutput(g, calls[k].op, s, calls[k].X, learned[s])[i]

\* the shape of the value predict returns
ReturnsCacheValues ==
    /\ Len(result.vals) = Len(outputs)
    /\ result.bare <=> Len(outputs) = 1
    /\ \A i \in 1..Len(outputs) : result.vals[i] = cache[outputs[i]]

StepInputsAreCached ==
    /\ err # "KeyError"
    /\ (pc \in {"fit", "predict"} /\ idx <= Len(steps)) =>
          Range(g.ins[steps[idx]]) \subseteq DOMAIN cache

\* fit with targets reaches a later step that takes a computed handle
WitnessStepInputsCached ==
    /\ pc = "fit"
    /\ target_data.given
    /\ idx >= 2
    /\ idx <= Len(steps)
    /\ \E h \in Range(g.ins[steps[idx]]) :
          h \notin Range(inputs) /\ h \notin Range(outputs)

\* C9: on a constructed Model every input handle of a required step is a
\* declared input or is produced by a step of the resolved list.
NoDanglingDependency ==
    Constructed =>
        \A k \in 1..Len(steps) :
            \A h \in Range(g.ins[steps[k]]) :
                h \in Range(inputs) \/ StepOf(g, h) \in Range(steps)

\* a required step fed by a declared input and by another required step
WitnessNoDangling ==
    /\ Constructed
    /\ Len(outputs) = 2
    /\ \E k \in 1..Len(steps) :
          \E h1, h2 \in Range(g.ins[steps[k]]) :
              /\ h1 \in Range(inputs)
              /\ h2 \notin Range(inputs)
              /\ StepOf(g, h2) \in Range(steps)

\* C10: a call with a wrong number of input or target values raises before
\* any step is invoked: the loop is entered only with matching counts, and
\* a call that raises for a count invokes no step and leaves every step's
\* learned state as it was.
CountMismatchStep ==
    /\ (pc = "ready" /\ pc' \in {"fit", "predict"}) =>
          /\ Len(input_data') = Len(inputs)
          /\ target_data'.given => Len(target_data'.vals) = Len(outputs)
    /\ (pc = "ready" /\ pc' = "ready") =>
          /\ err' \in {"ValueError: inputs", "ValueError: targets"}
          /\ calls' = <<>>
          /\ learned' = learned

AbortsAtStepWithoutPredictOrTransform ==
    /\ \A k \in 1..Len(calls) :
          calls[k].op # "fit" => /\ calls[k].op \in Inference
                                 /\ calls[k].op = g.cap[calls[k].step]
    /\ (pc \in {"fit", "predict"} \/ Returned("fit") \/ Returned("predict")) =>
          \A k \in 1..Len(steps) : k < idx => g.cap[steps[k]] \in Inference
    /\ err = "TypeError" =>
          /\ pc = "ready"
          /\ idx \in 1..Len(steps)
          /\ g.cap[steps[idx]] \notin Inference
          /\ \A k \in 1..(idx - 1) :
                /\ Cardinality(InvocationsOf(steps[k], Inference)) = 1
                /\ Cardinality(InvocationsOf(steps[k], {"fit"})) =
                      IF op = "fit" THEN 1 ELSE 0
          /\ \A k \in (idx + 1)..Len(steps) :
                InvocationsOf(steps[k], Inference \cup {"fit"}) = {}
          /\ InvocationsOf(steps[idx], Inference) = {}
          /\ \A h \in Range(g.outs[steps[idx]]) :
                h \in DOMAIN cache => cache[h].step = Caller
          /\ result = NoResult

\* a fit with targets that stops at its second step, whose output handle
\* holds the caller's target
WitnessAbortAtStep ==
    /\ err = "TypeError"
    /\ op = "fit"
    /\ idx = 2
    /\ \E h \in Range(g.outs[steps[idx]]) : h \in DOMAIN cache

\* the orders in which the handles of sq can be processed
Orderings(sq) == {q \in SeqsUpTo(Range(sq), Len(sq)) : Len(q) = Len(sq)}

\* C12: resolving again for the same inputs, graph and topological order
\* gives the list the Model holds, whatever the order in which the declared
\* outputs are processed: the same required set, the same verdict of the
\* missing-input check and the same ordered list.
ResolutionIndependentOfOutputOrder ==
    Resolved =>
        \A q \in Orderings(outputs) :
            LET r == get_required_steps(g, graph, inputs, q, sorted)
            IN  /\ r.required = required
                /\ r.ok <=> Constructed
                /\ r.steps = steps

\* two declared outputs of different steps, the producer of one upstream of
\* the producer of the other, so that the second walk stops at steps the
\* first one found
WitnessOutputOrder ==
    /\ Constructed
    /\ Len(outputs) = 2
    /\ Len(steps) >= 2
    /\ StepOf(g, outputs[1]) # StepOf(g, outputs[2])
    /\ StepOf(g, outputs[1]) \in BackwardClosure(g, Range(inputs), <<outputs[2]>>)

\* C13: a constructed Model has at least one declared input and at least
\* one declared output; an empty inputs or outputs list is rejected by the
\* validation of __init__.
ConstructedModelHasInputsAndOutputs ==
    /\ Constructed => inputs # <<>> /\ outputs # <<>>
    /\ (op = "init" /\ stage # "validate") => inputs # <<>> /\ outputs # <<>>

\* the cache predict ends with when it runs the steps from position k on
\* a cache c, every step in the learned state it has now
RECURSIVE Replay(_, _)
Replay(k, c) ==
    IF k > Len(steps)
    THEN c
    ELSE LET s == steps[k]
         IN  Replay(k + 1,
                    [h \in DOMAIN c \cup Range(g.outs[s]) |->
                        IF h \in Range(g.outs[s])
                        THEN [via |-> g.cap[s], step |-> s,
                              idx |-> CHOOSE i \in 1..Len(g.outs[s]) :
                                          g.outs[s][i] = h,
                              args |-> [m \in 1..Len(g.ins[s]) |-> c[g.ins[s][m]]],
                              st |-> learned[s]]
                        ELSE c[h]])

\* C14: after construction no call, failing calls included, changes the
\* graph, the declared inputs and outputs or the resolved list; a call
\* enters its loop with a cache that holds exactly what the caller passed to
\* this call, nothing a previous call computed; and what predict returns is
\* determined by this call's input values and the steps' learned state.
CallFrameStep ==
    /\ pc # "new" =>
          /\ graph' = graph
          /\ inputs' = inputs
          /\ outputs' = outputs
          /\ steps' = steps
    /\ (pc = "ready" /\ pc' \in {"fit", "predict"}) =>
          /\ DOMAIN cache' = Range(inputs) \cup
                (IF target_data'.given THEN Range(outputs) ELSE {})
          /\ \A h \in DOMAIN cache' :
                \/ \E j \in 1..Len(inputs) :
                      inputs[j] = h /\ cache'[h] = input_data'[j]
                \/ \E j \in 1..Len(outputs) :
                      /\ target_data'.given
                      /\ outputs[j] = h
                      /\ cache'[h] = target_data'.vals[j]
          /\ calls' = <<>>
          /\ result' = NoResult
    /\ (pc = "predict" /\ pc' = "ready" /\ err' = "") =>
          LET c0 == [h \in Range(inputs) |->
                        input_data[CHOOSE j \in 1..Len(inputs) : inputs[j] = h]]
          IN  result'.vals = [i \in 1..Len(outputs) |->
                                 Replay(1, c0)[outputs[i]]]

CallsLeaveModelUnchanged == [][CallFrameStep]_vars

\* a predict entered on a Model whose steps an earlier fit has run
WitnessFreshCache ==
    /\ pc = "predict"
    /\ idx = 1
    /\ Len(steps) >= 2
    /\ \A s \in required : learned[s].fitted
    /\ DOMAIN cache = Range(inputs)

\* the required steps without incoming edges
RequiredSources == {s \in required : in_degree(graph, s) = 0}

\* C15 as stated: a declared output is never named by the missing-input
\* error, and when every output handle of every required step without
\* incoming edges is a declared output nothing is missing and construction
\* succeeds.
DeclaredOutputsAreNotReportedMissing ==
    Resolved =>
        /\ missing \cap Range(outputs) = {}
        /\ (\A s \in RequiredSources : Range(g.outs[s]) \subseteq Range(outputs)) =>
              missing = {} /\ Constructed

\* C15: the missing-input check names output handles of required steps
\* without incoming edges only, and among them every declared output that
\* is not a declared input; construction succeeds exactly when no required
\* step is without incoming edges.
DeclaredOutputsAreReportedMissing ==
    Resolved =>
        /\ missing \subseteq UNION {Range(g.outs[s]) : s \in RequiredSources}
        /\ \A s \in RequiredSources :
              (Range(g.outs[s]) \cap Range(outputs)) \ Range(inputs)
                  \subseteq missing
        /\ Constructed <=> RequiredSources = {}

\* construction fails although every output handle of the only required
\* step without incoming edges is a declared output
WitnessDeclaredOutputMissing ==
    /\ stage = "missing_inputs"
    /\ RequiredSources # {}
    /\ \A s \in RequiredSources : Range(g.outs[s]) \subseteq Range(outputs)
    /\ missing \cap Range(outputs) # {}

\* C16: the graph builder adds each step as a node once, however many paths
\* lead to it: when _build_graph has returned, the number of add_node calls
\* is the number of distinct steps reachable backward from the declared
\* outputs.
EachStepAddedOnce ==
    (op = "init" /\ stage \notin {"validate", "build_graph"}) =>
        /\ graph.nodes = BackwardClosure(g, {}, outputs)
        /\ add_node_calls(g, outputs, 1, 1) = Cardinality(graph.nodes)

\* the places where an invocation of the running call takes handle h: the
\* pairs <<k, m>> with h the m-th input handle of the step of calls[k]
Takes(h) ==
    UNION {{<<k, m>> : m \in {n \in 1..Len(g.ins[calls[k].step]) :
                                  g.ins[calls[k].step][n] = h}} :
              k \in 1..Len(calls)}

\* v is the target the caller supplied for handle h in the running call
TargetFor(h, v) ==
    /\ target_data.given
    /\ \E j \in 1..Len(outputs) : outputs[j] = h /\ v = target_data.vals[j]

\* v is what the producing step of h returned for h in an invocation of the
\* running call earlier than calls[k]
ComputedBefore(k, h, v) ==
    LET p == StepOf(g, h)
    IN  \E n \in 1..(k - 1) :
            /\ calls[n].step = p
            /\ calls[n].op \in Inference
            /\ \E i \in 1..Len(g.outs[p]) :
                  /\ g.outs[p][i] = h
                  /\ v = StepOutput(g, calls[n].op, p, calls[n].X, learned[p])[i]

\* C17: in fit and in predict a required step that takes a declared input
\* handle receives the value the caller supplied for it in input_data, not
\* a target and not a value computed again by the handle's producing step.
StepReceivesCallerValueForDeclaredInput ==
    \A h \in Range(inputs) :
        \A t \in Takes(h) : CallerValue(h, calls[t[1]].X[t[2]])

\* the targets the caller supplied for the output handles of step s that
\* are declared outputs, in the order of the step's outputs
SuppliedTargets(s) ==
    LET hs == SelectSeq(g.outs[s],
                        LAMBDA h : target_data.given /\ h \in Range(outputs))
    IN  [i \in 1..Len(hs) |->
            target_data.vals[CHOOSE j \in 1..Len(outputs) : outputs[j] = hs[i]]]

\* C18: in fit the targets passed to a step's fit are exactly the targets
\* the caller supplied for those of its output handles that are declared
\* outputs, in the step's output order: none for a step without a declared
\* output, none at all when fit is called without target_data, and never a
\* value the caller supplied as an input.
FitTargetsAreSuppliedTargets ==
    \A k \in 1..Len(calls) :
        calls[k].op = "fit" =>
            /\ calls[k].y = SuppliedTargets(calls[k].step)
            /\ \A i \in 1..Len(calls[k].y) : calls[k].y[i].via # "input"

\* C19: in fit with targets, a required step that takes a handle h that is
\* not a declared input receives the value the producing step of h computed
\* earlier in the same call, never the target supplied for h, also when h
\* is a declared output; that target is passed to the producing step's fit.
StepReceivesComputedValueNotTarget ==
    (op = "fit" /\ target_data.given) =>
        /\ \A h \in HandlesOf(g) \ Range(inputs) :
              \A t \in Takes(h) :
                  /\ ComputedBefore(t[1], h, calls[t[1]].X[t[2]])
                  /\ ~TargetFor(h, calls[t[1]].X[t[2]])
        /\ \A h \in Range(outputs) \ Range(inputs) :
              \A k \in InvocationsOf(StepOf(g, h), {"fit"}) :
                  \E i \in 1..Len(calls[k].y) : TargetFor(h, calls[k].y[i])

\* a fit with targets in which a step took a handle that is a declared
\* output and not a declared input
WitnessComputedValueNotTarget ==
    /\ Returned("fit")
    /\ target_data.given
    /\ \E h \in Range(outputs) \ Range(inputs) : Takes(h) # {}

====
